---- MODULE Spec2Model ----
(***************************************************************************)
(* Model of the 'sqltest' DTML tag, Shared/DC/ZRDB/sqltest.py: class       *)
(* SQLTest, its constructor and its render method.                         *)
(*                                                                         *)
(* Representation of Python data:                                          *)
(*   - a text (str) is a sequence of pieces; the pieces of an input value  *)
(*     are its characters, a column name or an operator is one piece;      *)
(*   - a scalar is a record [k, n, d, s]: k is the Python type ("int",     *)
(*     "float", "str", "bytes", "none"), n/d the number (n * 10^-d) and s  *)
(*     the characters (str) or the bytes (bytes);                          *)
(*   - the render-time context md is the record [found, isseq, items]:     *)
(*     whether the lookup/evaluation succeeds (else KeyError), whether it  *)
(*     gives a list/tuple, and the element(s) it gives.                    *)
(*                                                                         *)
(* The interpreter is Python 3 (six.PY3 true): bytes and str are distinct  *)
(* and bytes are decoded where the code decodes them.  A call of render is *)
(* modelled step by step (lookup, multiplicity check, one loop iteration   *)
(* per element, composition) so that parallel calls interleave.            *)
(***************************************************************************)
EXTENDS Integers, Sequences, FiniteSets, TLC

\* Longest list/tuple a context resolves to.
MaxLen == 2

\* ---------------------------------------------------------------- values

PyInt(n) == [k |-> "int", n |-> n, d |-> 0, s |-> <<>>]
PyFloat(n, d) == [k |-> "float", n |-> n, d |-> d, s |-> <<>>]
PyStr(s) == [k |-> "str", n |-> 0, d |-> 0, s |-> s]
PyBytes(s) == [k |-> "bytes", n |-> 0, d |-> 0, s |-> s]
PyNone == [k |-> "none", n |-> 0, d |-> 0, s |-> <<>>]

\* isinstance(v, StringTypes): six.string_types + (six.binary_type,)
IsStringTypes(v) == v.k \in {"str", "bytes"}

\* Python truth value of a scalar ('not v' is its negation).
Truthy(v) ==
    CASE v.k = "none" -> FALSE
      [] v.k \in {"str", "bytes"} -> v.s # <<>>
      [] OTHER -> v.n # 0

\* ----------------------------------------------------------- conversions

DigitSeq == <<"0", "1", "2", "3", "4", "5", "6", "7", "8", "9">>
Digits == {DigitSeq[i] : i \in 1..Len(DigitSeq)}
DigitVal(c) == (CHOOSE i \in 1..Len(DigitSeq) : DigitSeq[i] = c) - 1

RECURSIVE Pow10(_)
Pow10(e) == IF e = 0 THEN 1 ELSE 10 * Pow10(e - 1)

RECURSIVE NatToText(_)
NatToText(n) ==
    IF n < 10 THEN <<DigitSeq[n + 1]>>
    ELSE NatToText(n \div 10) \o <<DigitSeq[(n % 10) + 1]>>

\* str(n) of an int n
IntToText(n) == IF n < 0 THEN <<"-">> \o NatToText(-n) ELSE NatToText(n)

RECURSIVE PadFrac(_, _)
PadFrac(t, d) == IF Len(t) >= d THEN t ELSE PadFrac(<<"0">> \o t, d)

RECURSIVE Normal(_, _)
\* a decimal n * 10^-d without trailing fractional zeros
Normal(n, d) ==
    IF d > 0 /\ n % 10 = 0 THEN Normal(n \div 10, d - 1) ELSE [n |-> n, d |-> d]

\* str(x) of a float x = n * 10^-d (repr without exponent; small magnitudes)
FloatToText(n, d) ==
    LET f == Normal(n, d)
        a == IF f.n < 0 THEN -f.n ELSE f.n
        ip == a \div Pow10(f.d)
        fp == a % Pow10(f.d)
        frac == IF f.d = 0 THEN <<"0">> ELSE PadFrac(NatToText(fp), f.d)
    IN  (IF f.n < 0 THEN <<"-">> ELSE <<>>) \o NatToText(ip) \o <<".">> \o frac

RECURSIVE LStrip(_)
LStrip(s) == IF s # <<>> /\ s[1] = " " THEN LStrip(Tail(s)) ELSE s

RECURSIVE RStrip(_)
RStrip(s) ==
    IF s # <<>> /\ s[Len(s)] = " " THEN RStrip(SubSeq(s, 1, Len(s) - 1)) ELSE s

Strip(s) == RStrip(LStrip(s))

HasSign(s) == s # <<>> /\ s[1] \in {"+", "-"}
Unsigned(s) == IF HasSign(s) THEN Tail(s) ELSE s
SignOf(s) == IF s # <<>> /\ s[1] = "-" THEN -1 ELSE 1

AllDigits(s) == \A i \in 1..Len(s) : s[i] \in Digits

RECURSIVE DigitsVal(_)
DigitsVal(s) ==
    IF s = <<>> THEN 0
    ELSE 10 * DigitsVal(SubSeq(s, 1, Len(s) - 1)) + DigitVal(s[Len(s)])

\* int(s) of a text succeeds: optional surrounding whitespace, optional
\* sign, one or more decimal digits.
IsIntText(s) ==
    LET u == Unsigned(Strip(s)) IN u # <<>> /\ AllDigits(u)

\* int(s) of a text for which it succeeds
IntOfText(s) ==
    LET b == Strip(s) IN SignOf(b) * DigitsVal(Unsigned(b))

DotAt(s) == {i \in 1..Len(s) : s[i] = "."}

\* float(s) of a text succeeds: optional whitespace and sign, digits with
\* at most one '.', at least one digit (texts here have no exponent/inf/nan).
IsFloatText(s) ==
    LET u == Unsigned(Strip(s))
        ds == SelectSeq(u, LAMBDA c : c # ".")
    IN  /\ Cardinality(DotAt(u)) <= 1
        /\ ds # <<>>
        /\ AllDigits(ds)

\* float(s) of a text for which it succeeds, as [n, d] (n * 10^-d)
FloatOfText(s) ==
    LET b == Strip(s)
        u == Unsigned(b)
        ds == SelectSeq(u, LAMBDA c : c # ".")
        dec == IF DotAt(u) = {} THEN 0 ELSE Len(u) - (CHOOSE i \in DotAt(u) : TRUE)
    IN  Normal(SignOf(b) * DigitsVal(ds), dec)

\* int(v) of a number: a float truncates toward zero
IntOfNumber(v) ==
    IF v.k = "int" THEN v.n
    ELSE LET p == Pow10(v.d)
         IN  IF v.n < 0 THEN -((-v.n) \div p) ELSE v.n \div p

\* bytes.decode(enc) succeeds: UTF-8 rejects the byte 0xFF, latin-1 maps
\* every byte to a character.
CanDecode(b, enc) == enc # "UTF-8" \/ \A i \in 1..Len(b) : b[i] # "\\xff"

\* bytes.decode(enc) when it succeeds: ASCII bytes map to their characters
Decode(b, enc) == [i \in 1..Len(b) |-> IF b[i] = "\\xff" THEN "U+00FF" ELSE b[i]]

\* str(v) of a scalar that is not a text
StrOf(v) ==
    CASE v.k = "int" -> IntToText(v.n)
      [] v.k = "float" -> FloatToText(v.n, v.d)
      [] v.k = "none" -> <<"N", "o", "n", "e">>
      [] OTHER -> v.s

RECURSIVE QuoteChars(_)
QuoteChars(s) ==
    IF s = <<>> THEN <<>>
    ELSE (IF s[1] = "'" THEN <<"'", "'">> ELSE <<s[1]>>) \o QuoteChars(Tail(s))

\* md.getitem('sql_quote__', 0): the quoting function of the context
sql_quote(s) == <<"'">> \o QuoteChars(s) \o <<"'">>

\* ------------------------------------------------------------ tag parsing

\* Python's None where a name, an expression or a configuration text may be
None == "<None>"
\* expr.eval: the callable of a parsed expression
EvalFn == "<eval>"

valid_types == {"int", "float", "string", "nb"}

comparison_operators ==
    [o \in {"eq", "ne", "lt", "le", "lte", "gt", "ge", "gte"} |->
        CASE o = "eq" -> "="
          [] o = "ne" -> "<>"
          [] o = "lt" -> "<"
          [] o \in {"le", "lte"} -> "<="
          [] o = "gt" -> ">"
          [] OTHER -> ">="]

\* comparison_operators.get(op, op)
OperatorOf(op) ==
    IF op \in DOMAIN comparison_operators THEN comparison_operators[op] ELSE op

\* The options parse_params accepts besides the name and the expression.
ArgKeys == {"type", "column", "multiple", "optional", "op"}

\* What the tag text can give for each option.  A flag written without a
\* value gets the default of the parse_params call (multiple=1, optional=1);
\* a flag written as optional="" gets the empty text.
TypeInputs == {"int", "float", "string", "nb", "date"}
FlagInputs == {PyInt(1), PyStr(<<>>)}
ColumnInputs == {"col"}
OpInputs == {"ne", "ge", "like"}

\* The mapping parse_params returns: only the options the tag gives.
ArgsOf(keys, typ, opt, mul, col, op) ==
    [key \in keys |->
        CASE key = "type" -> typ
          [] key = "optional" -> opt
          [] key = "multiple" -> mul
          [] key = "column" -> col
          [] OTHER -> op]

TagArgs ==
    {ArgsOf(keys, typ, opt, mul, col, op) :
        keys \in SUBSET ArgKeys, typ \in TypeInputs, opt \in FlagInputs,
        mul \in FlagInputs, col \in ColumnInputs, op \in OpInputs}

\* What name_param returns: a plain name and no expression, or an expression
\* (with no name, or with its source text as the name).
NameParams ==
    { [name |-> "city", expr |-> None],
      [name |-> None, expr |-> EvalFn],
      [name |-> "city.strip()", expr |-> EvalFn] }

Encodings == {None, "latin-1"}

\* The attributes of an instance before __init__ has set any: the class
\* attributes optional = multiple = None, everything else unset.
NoSelf ==
    [name |-> None, expr |-> None, args |-> <<>>, type |-> None,
     optional |-> PyNone, multiple |-> PyNone, column |-> None, op |-> None,
     encoding |-> None]

ParseError(msg) == [ok |-> FALSE, err |-> msg, self |-> NoSelf]

\* SQLTest.__init__ with optional and multiple defaulting to 1 when the tag
\* does not give them.
SQLTestInitPermissive(args, np, encoding) ==
    LET expr == IF np.expr = None THEN np.name ELSE np.expr
        has(key) == key \in DOMAIN args
        all == [key \in DOMAIN args \cup {"optional", "multiple"} |->
                  IF has(key) THEN args[key] ELSE PyInt(1)]
        op == IF has("op") THEN OperatorOf(args["op"]) ELSE "="
    IN  IF ~has("type") THEN ParseError("the type attribute is required")
        ELSE IF args["type"] \notin valid_types THEN ParseError("invalid type")
        ELSE IF ~has("column") /\ np.name = None
        THEN ParseError("the column attribute is required if an expression is used")
        ELSE [ok |-> TRUE, err |-> "",
              self |->
                [name |-> np.name, expr |-> expr, args |-> all,
                 type |-> args["type"],
                 optional |-> all["optional"], multiple |-> all["multiple"],
                 column |-> IF has("column") THEN args["column"] ELSE np.name,
                 op |-> op, encoding |-> encoding]]

\* SQLTest.__init__ without the check that an expression needs a column.
SQLTestInitNoColumnCheck(args, np, encoding) ==
    LET expr == IF np.expr = None THEN np.name ELSE np.expr
        has(key) == key \in DOMAIN args
        op == IF has("op") THEN OperatorOf(args["op"]) ELSE "="
    IN  IF ~has("type") THEN ParseError("the type attribute is required")
        ELSE IF args["type"] \notin valid_types THEN ParseError("invalid type")
        ELSE [ok |-> TRUE, err |-> "",
              self |->
                [name |-> np.name, expr |-> expr, args |-> args,
                 type |-> args["type"],
                 optional |-> IF has("optional") THEN args["optional"] ELSE PyNone,
                 multiple |-> IF has("multiple") THEN args["multiple"] ELSE PyNone,
                 column |-> IF has("column") THEN args["column"] ELSE np.name,
                 op |-> op, encoding |-> encoding]]

\* SQLTest.__init__(args, encoding), after parse_params and name_param
SQLTestInit(args, np, encoding) ==
    LET expr == IF np.expr = None THEN np.name ELSE np.expr
        has(key) == key \in DOMAIN args
        op == IF has("op") THEN OperatorOf(args["op"]) ELSE "="
    IN  IF ~has("type") THEN ParseError("the type attribute is required")
        ELSE IF args["type"] \notin valid_types THEN ParseError("invalid type")
        ELSE IF ~has("column") /\ np.name = None
        THEN ParseError("the column attribute is required if an expression is used")
        ELSE [ok |-> TRUE, err |-> "",
              self |->
                [name |-> np.name, expr |-> expr, args |-> args,
                 type |-> args["type"],
                 optional |-> IF has("optional") THEN args["optional"] ELSE PyNone,
                 multiple |-> IF has("multiple") THEN args["multiple"] ELSE PyNone,
                 column |-> IF has("column") THEN args["column"] ELSE np.name,
                 op |-> op, encoding |-> encoding]]

\* ----------------------------------------------------------------- render

\* What a call ends with: a returned text, or a raised exception with the
\* text of its message and the variable name the message is formatted with.
Return(text) ==
    [kind |-> "return", exc |-> "", msg |-> "", var |-> None, text |-> text]
Raise(exc, msg, name) ==
    [kind |-> "raise", exc |-> exc, msg |-> msg, var |-> name, text |-> <<>>]
NoOut == [kind |-> "none", exc |-> "", msg |-> "", var |-> None, text |-> <<>>]

ValueError(msg, name) == Raise("ValueError", msg, name)

\* 'optional' in args and args['optional']
ArgsOptional(args) == "optional" \in DOMAIN args /\ Truthy(args["optional"])

\* The body of one iteration of 'for v in v': what happens to the element v
\* under the declared type t.  act is "continue" (dropped), "append" (val is
\* appended to vs) or "raise" (out is raised).
Dropped == [act |-> "continue", val |-> <<>>, out |-> NoOut]
Appended(val) == [act |-> "append", val |-> val, out |-> NoOut]
Raised(out) == [act |-> "raise", val |-> <<>>, out |-> out]

\* The int branch storing str(int(v)) for a text too.
IntElementCanonical(v, encoding, name) ==
    LET enc == IF encoding = None THEN "UTF-8" ELSE encoding
        invalid == Raised(ValueError("Invalid integer value", name))
    IN  IF IsStringTypes(v)
        THEN IF v.k = "bytes" /\ ~CanDecode(v.s, enc) THEN invalid
             ELSE LET s == IF v.k = "bytes" THEN Decode(v.s, enc) ELSE v.s
                      u == IF s # <<>> /\ s[Len(s)] = "L"
                           THEN SubSeq(s, 1, Len(s) - 1) ELSE s
                  IN  IF IsIntText(u) THEN Appended(IntToText(IntOfText(u)))
                      ELSE invalid
        ELSE IF v.k = "none" THEN invalid
        ELSE Appended(IntToText(IntOfNumber(v)))

IntElement(v, encoding, name) ==
    LET enc == IF encoding = None THEN "UTF-8" ELSE encoding
        invalid == Raised(ValueError("Invalid integer value", name))
    IN  IF IsStringTypes(v)
        THEN IF v.k = "bytes" /\ ~CanDecode(v.s, enc) THEN invalid
             ELSE LET s == IF v.k = "bytes" THEN Decode(v.s, enc) ELSE v.s
                      u == IF s # <<>> /\ s[Len(s)] = "L"
                           THEN SubSeq(s, 1, Len(s) - 1) ELSE s
                  IN  IF IsIntText(u) THEN Appended(u) ELSE invalid
        ELSE IF v.k = "none" THEN invalid
        ELSE Appended(IntToText(IntOfNumber(v)))

FloatElement(v, encoding, name) ==
    LET enc == IF encoding = None THEN "UTF-8" ELSE encoding
        invalid == Raised(ValueError("Invalid floating-point value", name))
    IN  IF ~Truthy(v) /\ IsStringTypes(v) THEN Dropped
        ELSE IF v.k = "bytes" /\ ~CanDecode(v.s, enc) THEN invalid
        ELSE IF IsStringTypes(v)
        THEN LET s == IF v.k = "bytes" THEN Decode(v.s, enc) ELSE v.s
             IN  IF IsFloatText(s) THEN Appended(s) ELSE invalid
        ELSE IF v.k = "none" THEN invalid
        ELSE Appended(FloatToText(v.n, v.d))

StringElement(v) ==
    LET s == IF IsStringTypes(v) THEN v.s ELSE StrOf(v)
    IN  IF v.k = "bytes" /\ ~CanDecode(s, "UTF-8")
        THEN Raised(Raise("UnicodeDecodeError", "", None))
        ELSE Appended(sql_quote(IF v.k = "bytes" THEN Decode(s, "UTF-8") ELSE s))

\* The loop body dropping an empty text whatever the type.
LoopBodyDropsEmpty(v, t, encoding, name) ==
    IF ~Truthy(v) /\ IsStringTypes(v) THEN Dropped
    ELSE IF t = "int" THEN IntElement(v, encoding, name)
    ELSE IF t = "float" THEN FloatElement(v, encoding, name)
    ELSE StringElement(v)

LoopBody(v, t, encoding, name) ==
    IF ~Truthy(v) /\ IsStringTypes(v) /\ t # "string" THEN Dropped
    ELSE IF t = "int" THEN IntElement(v, encoding, name)
    ELSE IF t = "float" THEN FloatElement(v, encoding, name)
    ELSE StringElement(v)

RECURSIVE Join(_)
\* ', '.join(map(str, vs))
Join(vs) ==
    IF Len(vs) = 1 THEN vs[1] ELSE vs[1] \o <<", ">> \o Join(Tail(vs))

\* The state of one call of render: where it is (pc), the context it was
\* given, its locals name, t, args, v (the elements not yet iterated, and
\* whether v is a list/tuple) and vs, and what it ended with.
Idle ==
    [pc |-> "idle", md |-> [found |-> FALSE, isseq |-> FALSE, items |-> <<>>],
     name |-> None, t |-> None, args |-> <<>>, isseq |-> FALSE, v |-> <<>>,
     vs |-> <<>>, out |-> NoOut]

Done(s, out) == [s EXCEPT !.pc = "done", !.out = out]

\* The KeyError handler raising whatever 'optional' says.
ResolveStepAlwaysRaises(self, md) ==
    LET s == [Idle EXCEPT !.md = md, !.name = self.name, !.t = self.type,
                          !.args = self.args]
    IN  IF ~md.found
        THEN Done(s, ValueError("Missing input variable", s.name))
        ELSE [s EXCEPT !.pc = "normalize", !.isseq = md.isseq, !.v = md.items]

\* Lines 114-127: the locals, the lookup and the KeyError handler.
ResolveStep(self, md) ==
    LET s == [Idle EXCEPT !.md = md, !.name = self.name, !.t = self.type,
                          !.args = self.args]
    IN  IF ~md.found
        THEN IF ArgsOptional(s.args) THEN Done(s, Return(<<>>))
             ELSE Done(s, ValueError("Missing input variable", s.name))
        ELSE [s EXCEPT !.pc = "normalize", !.isseq = md.isseq, !.v = md.items]

\* The multiplicity check with 'len(v) > 0'.
NormalizeStepAnyLength(self, s) ==
    IF s.isseq /\ Len(s.v) > 0 /\ ~Truthy(self.multiple)
    THEN Done(s, ValueError("multiple values are not allowed", s.name))
    ELSE [s EXCEPT !.pc = "loop", !.isseq = TRUE]

\* Lines 129-134: the multiplicity check, or the wrapping of a scalar.
NormalizeStep(self, s) ==
    IF s.isseq /\ Len(s.v) > 1 /\ ~Truthy(self.multiple)
    THEN Done(s, ValueError("multiple values are not allowed", s.name))
    ELSE [s EXCEPT !.pc = "loop", !.isseq = TRUE]

\* The loop returning '' for an invalid element of an optional test.
ElementStepSwallows(self, s) ==
    LET r == LoopBody(Head(s.v), s.t, self.encoding, s.name)
    IN  IF r.act = "raise"
        THEN IF Truthy(self.optional) THEN Done(s, Return(<<>>)) ELSE Done(s, r.out)
        ELSE [s EXCEPT !.v = Tail(s.v),
                       !.vs = IF r.act = "append" THEN Append(@, r.val) ELSE @]

\* Lines 137-179: one iteration of the loop over the elements.
ElementStep(self, s) ==
    LET r == LoopBody(Head(s.v), s.t, self.encoding, s.name)
    IN  IF r.act = "raise" THEN Done(s, r.out)
        ELSE [s EXCEPT !.v = Tail(s.v),
                       !.vs = IF r.act = "append" THEN Append(@, r.val) ELSE @]

\* The composition using 'not in' for every operator but '='.
FinishStepNotEqual(self, s) ==
    IF s.vs = <<>> /\ s.t = "nb"
    THEN IF ArgsOptional(s.args) THEN Done(s, Return(<<>>))
         ELSE Done(s, ValueError("Invalid empty string value", s.name))
    ELSE IF s.vs = <<>>
    THEN IF Truthy(self.optional) THEN Done(s, Return(<<>>))
         ELSE Done(s, ValueError("No input was provided", s.name))
    ELSE IF Len(s.vs) > 1
    THEN IF self.op # "="
         THEN Done(s, Return(<<self.column, " not in (">> \o Join(s.vs) \o <<")">>))
         ELSE Done(s, Return(<<self.column, " in (">> \o Join(s.vs) \o <<")">>))
    ELSE Done(s, Return(<<self.column, " ", self.op, " ">> \o s.vs[1]))

\* The empty-result policy raising for 'nb' whatever 'optional' says.
FinishStepNbRaises(self, s) ==
    IF s.vs = <<>> /\ s.t = "nb"
    THEN Done(s, ValueError("Invalid empty string value", s.name))
    ELSE IF s.vs = <<>>
    THEN IF Truthy(self.optional) THEN Done(s, Return(<<>>))
         ELSE Done(s, ValueError("No input was provided", s.name))
    ELSE IF Len(s.vs) > 1
    THEN IF self.op = "<>"
         THEN Done(s, Return(<<self.column, " not in (">> \o Join(s.vs) \o <<")">>))
         ELSE Done(s, Return(<<self.column, " in (">> \o Join(s.vs) \o <<")">>))
    ELSE Done(s, Return(<<self.column, " ", self.op, " ">> \o s.vs[1]))

\* Lines 181-202: the empty-result policy and the composition.
FinishStep(self, s) ==
    IF s.vs = <<>> /\ s.t = "nb"
    THEN IF ArgsOptional(s.args) THEN Done(s, Return(<<>>))
         ELSE Done(s, ValueError("Invalid empty string value", s.name))
    ELSE IF s.vs = <<>>
    THEN IF Truthy(self.optional) THEN Done(s, Return(<<>>))
         ELSE Done(s, ValueError("No input was provided", s.name))
    ELSE IF Len(s.vs) > 1
    THEN IF self.op = "<>"
         THEN Done(s, Return(<<self.column, " not in (">> \o Join(s.vs) \o <<")">>))
         ELSE Done(s, Return(<<self.column, " in (">> \o Join(s.vs) \o <<")">>))
    ELSE Done(s, Return(<<self.column, " ", self.op, " ">> \o s.vs[1]))

\* The next step of a call that has resolved its value.
RenderStep(self, s) ==
    CASE s.pc = "normalize" -> NormalizeStep(self, s)
      [] s.pc = "loop" /\ s.v # <<>> -> ElementStep(self, s)
      [] s.pc = "loop" /\ s.v = <<>> -> FinishStep(self, s)
      [] OTHER -> s

RECURSIVE RunFrom(_, _)
RunFrom(self, s) == IF s.pc = "done" THEN s ELSE RunFrom(self, RenderStep(self, s))

\* SQLTest.render(md) run to its end on an instance nothing else touches.
Render(self, md) == RunFrom(self, ResolveStep(self, md)).out

\* ------------------------------------------------------------ the system

\* What a context can resolve the name or the expression to.
Scalars ==
    { PyInt(5), PyFloat(25, 1), PyNone,
      PyStr(<<>>), PyStr(<<"0", "0", "7">>), PyStr(<<"5", "L">>),
      PyStr(<<" ", "7">>), PyStr(<<"2", ".", "5", "0">>),
      PyStr(<<"a", "b", "c">>), PyStr(<<"o", "'", "k">>),
      PyBytes(<<"7">>), PyBytes(<<"\\xff">>) }

ListElems == {PyInt(5), PyStr(<<>>), PyStr(<<"0", "0", "7">>), PyStr(<<"a", "b", "c">>)}

Lists == UNION {[1..n -> ListElems] : n \in 0..MaxLen}

Missing == [found |-> FALSE, isseq |-> FALSE, items |-> <<>>]

Contexts ==
    {Missing}
    \cup {[found |-> TRUE, isseq |-> FALSE, items |-> <<x>>] : x \in Scalars}
    \cup {[found |-> TRUE, isseq |-> TRUE, items |-> l] : l \in Lists}

\* The contexts of the renderings that run in parallel.
ParallelContexts ==
    {Missing}
    \cup {[found |-> TRUE, isseq |-> FALSE, items |-> <<x>>] :
            x \in {PyInt(5), PyStr(<<>>), PyStr(<<"a", "b", "c">>)}}
    \cup {[found |-> TRUE, isseq |-> TRUE, items |-> l] :
            l \in {<<PyInt(5), PyStr(<<"0", "0", "7">>)>>, <<PyStr(<<>>), PyInt(5)>>}}

\* The renderings of the one compiled template that may run in parallel.
Calls == {"c1", "c2"}

VARIABLES
    built,   \* "no" before the constructor ran, then "yes" or "failed"
    cerr,    \* the message of the ParseError the constructor raised
    tag,     \* the arguments the constructor was given
    self,    \* the attributes of the instance
    calls    \* the state of each call of render

vars == <<built, cerr, tag, self, calls>>

NoTag == [args |-> <<>>, np |-> [name |-> None, expr |-> None], encoding |-> None]

Init ==
    /\ built = "no"
    /\ cerr = ""
    /\ tag = NoTag
    /\ self = NoSelf
    /\ calls = [c \in Calls |-> Idle]

\* SQLTest(args, encoding)
Construct ==
    /\ built = "no"
    /\ \E args \in TagArgs, np \in NameParams, encoding \in Encodings :
         LET r == SQLTestInit(args, np, encoding)
         IN  /\ built' = IF r.ok THEN "yes" ELSE "failed"
             /\ cerr' = r.err
             /\ tag' = [args |-> args, np |-> np, encoding |-> encoding]
             /\ self' = r.self
    /\ UNCHANGED calls

\* A call of render(md) begins: lines 114-127.
Resolve(c, mds) ==
    /\ built = "yes"
    /\ calls[c].pc \in {"idle", "done"}
    /\ \E md \in mds : calls' = [calls EXCEPT ![c] = ResolveStep(self, md)]
    /\ UNCHANGED <<built, cerr, tag, self>>

\* Lines 129-134.
Normalize(c) ==
    /\ calls[c].pc = "normalize"
    /\ calls' = [calls EXCEPT ![c] = NormalizeStep(self, @)]
    /\ UNCHANGED <<built, cerr, tag, self>>

\* One element, with the default encoding stored on the instance at first use.
ElementStoresEncoding(c) ==
    /\ calls[c].pc = "loop"
    /\ calls[c].v # <<>>
    /\ calls' = [calls EXCEPT ![c] = ElementStep(self, @)]
    /\ self' = [self EXCEPT !.encoding = IF @ = None THEN "UTF-8" ELSE @]
    /\ UNCHANGED <<built, cerr, tag>>

\* Lines 137-179, one element.
Element(c) ==
    /\ calls[c].pc = "loop"
    /\ calls[c].v # <<>>
    /\ calls' = [calls EXCEPT ![c] = ElementStep(self, @)]
    /\ UNCHANGED <<built, cerr, tag, self>>

\* Lines 181-202.
Finish(c) ==
    /\ calls[c].pc = "loop"
    /\ calls[c].v = <<>>
    /\ calls' = [calls EXCEPT ![c] = FinishStep(self, @)]
    /\ UNCHANGED <<built, cerr, tag, self>>

\* One template rendering at a time, any tag and any context.
Next ==
    \/ Construct
    \/ Resolve("c1", Contexts)
    \/ Normalize("c1")
    \/ Element("c1")
    \/ Finish("c1")

Spec == Init /\ [][Next]_vars

\* The tags of the template whose renderings run in parallel.
ParallelTags ==
    {[args |-> ArgsOf(keys \cup {"type"}, typ, PyInt(1), PyInt(1), "col", "ne"),
      np |-> [name |-> "city", expr |-> None], encoding |-> None] :
        keys \in SUBSET {"optional", "multiple", "op"},
        typ \in {"int", "string", "nb"}}

\* The state after the template was compiled.
InitConc ==
    /\ built = "yes"
    /\ cerr = ""
    /\ tag \in ParallelTags
    /\ self = SQLTestInit(tag.args, tag.np, tag.encoding).self
    /\ calls = [c \in Calls |-> Idle]

\* Parallel renderings of the compiled template, interleaved step by step.
NextConc ==
    \E c \in Calls :
        \/ Resolve(c, ParallelContexts)
        \/ Normalize(c)
        \/ Element(c)
        \/ Finish(c)

SpecConc == InitConc /\ [][NextConc]_vars

\* ----------------------------------------------------------------- claims

\* The call of the one-at-a-time specification, and its having ended on a
\* constructed instance.
Fin == calls["c1"]
Ended == built = "yes" /\ Fin.pc = "done"

OptionalSet == Truthy(self.optional)
MultipleSet == Truthy(self.multiple)

EmptyText(x) == IsStringTypes(x) /\ x.s = <<>>

\* The elements of a resolved value that the filtering keeps under type t.
Survivors(items, t) == SelectSeq(items, LAMBDA x : ~(EmptyText(x) /\ t # "string"))

MultiplicityError(name) == ValueError("multiple values are not allowed", name)

\* The resolved value is a list/tuple of more than one element.
ManyValues(md) == md.found /\ md.isseq /\ Len(md.items) > 1

\* C1: for every type, when the lookup signals not-found, render returns ''
\* if the optional flag is set and otherwise raises the missing-input error
\* naming the variable; nothing else happens for a missing value.
C1_MissingValue ==
    (Ended /\ ~Fin.md.found) =>
        /\ self.type \in valid_types
        /\ IF OptionalSet THEN Fin.out = Return(<<>>)
           ELSE Fin.out = ValueError("Missing input variable", self.name)

C1_Witness ==
    /\ Ended /\ ~Fin.md.found /\ OptionalSet /\ self.type = "float"
    /\ Fin.out = Return(<<>>)

\* C2: render raises 'multiple values are not allowed' exactly when the
\* resolved value is a list/tuple of more than one element and multiple is
\* not set, whatever the type and the elements.
C2_Multiplicity ==
    Ended =>
        (Fin.out = MultiplicityError(self.name)
            <=> (ManyValues(Fin.md) /\ ~MultipleSet))

C2_Witness ==
    /\ Ended /\ ~MultipleSet /\ self.type = "int"
    /\ Fin.md.isseq /\ Fin.md.items = <<PyStr(<<>>), PyStr(<<"a", "b", "c">>)>>
    /\ Fin.out = MultiplicityError(self.name)

\* C3 as stated: a tag that does not give 'multiple' accepts a resolved
\* sequence of more than one element, and a tag that does not give
\* 'optional' yields '' for an absent value.
C3_Original ==
    Ended =>
        /\ ("multiple" \notin DOMAIN tag.args /\ ManyValues(Fin.md))
              => Fin.out # MultiplicityError(self.name)
        /\ ("optional" \notin DOMAIN tag.args /\ ~Fin.md.found)
              => Fin.out = Return(<<>>)

\* C3 amended: a tag that does not give 'multiple' leaves multiple unset (a
\* resolved sequence of more than one element raises the multiplicity
\* error), and a tag that does not give 'optional' leaves optional unset (an
\* absent value raises the missing-input error and a value none of whose
\* elements survive raises, never returning '').
C3_DefaultsUnset ==
    Ended =>
        /\ ("multiple" \notin DOMAIN tag.args /\ ManyValues(Fin.md))
              => Fin.out = MultiplicityError(self.name)
        /\ ("optional" \notin DOMAIN tag.args /\ ~Fin.md.found)
              => Fin.out = ValueError("Missing input variable", self.name)
        /\ "optional" \notin DOMAIN tag.args => Fin.out # Return(<<>>)

C3_Witness ==
    /\ Ended /\ DOMAIN tag.args = {"type"}
    /\ ManyValues(Fin.md) /\ Fin.out = MultiplicityError(self.name)

\* C4: a non-empty result has the shape the number of surviving elements
\* gives: one survivor '<column> <op> <value>' with the stored operator, two
\* or more '<column> not in (...)' exactly when the stored operator is '<>'
\* and '<column> in (...)' for every other operator, values joined by ', '
\* in input order.
C4_FragmentShape ==
    (Ended /\ Fin.out.kind = "return" /\ Fin.out.text # <<>>) =>
        LET n == Len(Survivors(Fin.md.items, self.type))
            stored == IF "op" \in DOMAIN tag.args
                      THEN OperatorOf(tag.args["op"]) ELSE "="
        IN  /\ n >= 1 /\ Len(Fin.vs) = n
            /\ n = 1 => Fin.out.text = <<self.column, " ", stored, " ">> \o Fin.vs[1]
            /\ n >= 2 =>
                 Fin.out.text =
                    <<self.column, IF stored = "<>" THEN " not in (" ELSE " in (">>
                    \o Join(Fin.vs) \o <<")">>

C4_Witness ==
    /\ Ended /\ self.op = ">=" /\ self.type = "int"
    /\ Fin.md.items = <<PyInt(5), PyStr(<<"0", "0", "7">>)>>
    /\ Fin.out = Return(<<"col", " in (", "5", ", ", "0", "0", "7", ")">>)

\* C5: when no element survives the filtering, render returns '' if
\* optional is set; if not it raises 'Invalid empty string value' for type
\* nb and 'No input was provided' for every other type.
C5_NothingSurvives ==
    (/\ Ended /\ Fin.md.found
     /\ ~(ManyValues(Fin.md) /\ ~MultipleSet)
     /\ Survivors(Fin.md.items, self.type) = <<>>) =>
        IF OptionalSet THEN Fin.out = Return(<<>>)
        ELSE IF self.type = "nb"
        THEN Fin.out = ValueError("Invalid empty string value", self.name)
        ELSE Fin.out = ValueError("No input was provided", self.name)

C5_Witness ==
    /\ Ended /\ self.type = "nb" /\ ~OptionalSet
    /\ ~Fin.md.isseq /\ Fin.md.items = <<PyStr(<<>>)>>
    /\ Fin.out = ValueError("Invalid empty string value", self.name)

\* The case of C6: type string, name 'city', optional set, the value ''.
C6_Case ==
    /\ Ended /\ self.type = "string" /\ self.name = "city" /\ OptionalSet
    /\ Fin.md.found /\ ~Fin.md.isseq /\ Fin.md.items = <<PyStr(<<>>)>>

\* C6 as stated: that rendering returns ''.
C6_Original == C6_Case => Fin.out = Return(<<>>)

\* C6 amended: that rendering returns the comparison against the quoted
\* empty value, '<column> <op> <quoted empty text>'; an empty value is
\* dropped only when the type is not 'string'.
C6_EmptyStringCompared ==
    C6_Case => Fin.out = Return(<<self.column, " ", self.op, " ">> \o sql_quote(<<>>))

C6_Witness ==
    C6_Case /\ Fin.out = Return(<<"city", " ", "=", " ", "'", "'">>)

\* The value segment of a fragment made of n values.
ValueSegment(text, n) ==
    IF n = 1 THEN SubSeq(text, 5, Len(text)) ELSE SubSeq(text, 3, Len(text) - 1)

\* str(int(v)) and str(float(v)) of an input element; int() and float()
\* take a text or ASCII bytes, and raise on a text that is no literal.
CanonInt(x) ==
    IF IsStringTypes(x)
    THEN IF IsIntText(x.s) THEN IntToText(IntOfText(x.s)) ELSE <<"int(v) raises">>
    ELSE IntToText(IntOfNumber(x))

CanonFloat(x) ==
    IF IsStringTypes(x)
    THEN IF IsFloatText(x.s)
         THEN LET f == FloatOfText(x.s) IN FloatToText(f.n, f.d)
         ELSE <<"float(v) raises">>
    ELSE FloatToText(x.n, x.d)

\* The text of a textual element: bytes decoded with the configured encoding.
TextOf(x) ==
    IF x.k = "bytes"
    THEN Decode(x.s, IF self.encoding = None THEN "UTF-8" ELSE self.encoding)
    ELSE x.s

WithoutL(s) ==
    IF s # <<>> /\ s[Len(s)] = "L" THEN SubSeq(s, 1, Len(s) - 1) ELSE s

\* A call that ended with a fragment of an int- or float-typed test.
C7_Case ==
    /\ Ended /\ self.type \in {"int", "float"}
    /\ Fin.out.kind = "return" /\ Fin.out.text # <<>>

\* C7 as stated: every accepted element, numeric or textual, is emitted as
\* str(int(v)) under type int and as str(float(v)) under type float.
C7_Original ==
    C7_Case =>
        LET sv == Survivors(Fin.md.items, self.type)
            canon == [i \in 1..Len(sv) |->
                        IF self.type = "int" THEN CanonInt(sv[i]) ELSE CanonFloat(sv[i])]
        IN  ValueSegment(Fin.out.text, Len(sv)) = Join(canon)

\* C7 amended: an accepted numeric element is emitted as str(int(v)) under
\* type int and str(float(v)) under type float; an accepted textual element
\* is emitted as written (bytes decoded, and under type int one trailing 'L'
\* removed), int() or float() having only validated it.
C7_NumbersCanonicalTextsVerbatim ==
    C7_Case =>
        LET sv == Survivors(Fin.md.items, self.type)
            emitted == [i \in 1..Len(sv) |->
                          IF IsStringTypes(sv[i])
                          THEN IF self.type = "int" THEN WithoutL(TextOf(sv[i]))
                               ELSE TextOf(sv[i])
                          ELSE IF self.type = "int" THEN CanonInt(sv[i])
                               ELSE CanonFloat(sv[i])]
        IN  /\ ValueSegment(Fin.out.text, Len(sv)) = Join(emitted)
            /\ \A i \in 1..Len(sv) :
                 IsStringTypes(sv[i]) =>
                    IF self.type = "int" THEN IsIntText(WithoutL(TextOf(sv[i])))
                    ELSE IsFloatText(TextOf(sv[i]))

C7_Witness ==
    /\ C7_Case /\ self.type = "int" /\ self.op = "="
    /\ Fin.md.items = <<PyStr(<<"0", "0", "7">>)>>
    /\ Fin.out = Return(<<"col", " ", "=", " ", "0", "0", "7">>)

C9_RenderIsReentrant ==
    LET fresh == SQLTestInit(tag.args, tag.np, tag.encoding).self
    IN  /\ self = fresh
        /\ \A c \in Calls :
             calls[c].pc = "done" => calls[c].out = Render(fresh, calls[c].md)

C9_Witness ==
    /\ calls["c1"].pc = "loop" /\ Len(calls["c1"].vs) = 1 /\ Len(calls["c1"].v) = 1
    /\ calls["c2"].pc = "done" /\ calls["c2"].out.kind = "raise"
    /\ calls["c1"].md # calls["c2"].md

\* A non-empty text that int() / float() rejects.
InvalidInt(x) == x.k = "str" /\ x.s # <<>> /\ ~IsIntText(WithoutL(x.s))
InvalidFloat(x) == x.k = "str" /\ x.s # <<>> /\ ~IsFloatText(x.s)

\* C10: render returns '' only if optional is set and the lookup signalled
\* not-found or no element survived; with optional set an invalid non-empty
\* element still raises the invalid-integer / invalid-floating-point error
\* and too many values still raise the multiplicity error; with optional
\* not set render never returns ''.
C10_OptionalOnlyAbsence ==
    Ended =>
        LET md == Fin.md
            tooMany == ManyValues(md) /\ ~MultipleSet
        IN  /\ Fin.out = Return(<<>>) =>
                 /\ OptionalSet
                 /\ ~md.found \/ Survivors(md.items, self.type) = <<>>
            /\ (OptionalSet /\ md.found /\ ~tooMany /\ self.type = "int"
                  /\ \E i \in 1..Len(md.items) : InvalidInt(md.items[i]))
                 => Fin.out = ValueError("Invalid integer value", self.name)
            /\ (OptionalSet /\ md.found /\ ~tooMany /\ self.type = "float"
                  /\ \E i \in 1..Len(md.items) : InvalidFloat(md.items[i]))
                 => Fin.out = ValueError("Invalid floating-point value", self.name)
            /\ (OptionalSet /\ tooMany) => Fin.out = MultiplicityError(self.name)
            /\ ~OptionalSet => Fin.out # Return(<<>>)

C10_Witness ==
    /\ Ended /\ OptionalSet /\ self.type = "int"
    /\ Fin.md.items = <<PyStr(<<"a", "b", "c">>)>>
    /\ Fin.out = ValueError("Invalid integer value", self.name)

====
